---------------------------- MODULE Spec2Model ----------------------------
(***************************************************************************)
(* A model of the webservice library: the path-pattern compiler and        *)
(* matcher (Route.path / Route.match), the dispatch binder                 *)
(* (FunctionDispatcher / coerce), the route table (Service.ServeHTTP and   *)
(* the earlier HttpService.ServeHTTP) and the codec registry               *)
(* (SerializerMap).                                                        *)
(*                                                                         *)
(* Strings are sequences of one-character strings, so that the code's      *)
(* scanning, slicing and matching of strings can be written out.          *)
(***************************************************************************)
EXTENDS Integers, Sequences, FiniteSets, TLC

\* ------------------------------------------------------------------------
\* Characters
\* ------------------------------------------------------------------------

Digits == {"0", "1", "2", "3", "4", "5", "6", "7", "8", "9"}

Letters == {"a", "b", "c", "d", "i", "p", "x", "y", "z"}

\* \w of Go's regexp syntax over the model's alphabet: [0-9A-Za-z_]
WordChars == Digits \cup Letters \cup {"_"}

\* ------------------------------------------------------------------------
\* regexp.Compile: a recursive-descent parser for the part of Go's regexp
\* syntax that the model's templates can produce: literals, '.', '^', '$',
\* groups, alternation, the class [^/], and the repetition operators
\* '*', '+', '?' with their non-greedy forms.  A parse result is
\* [err, node, i, g]: i the next unread position, g the number of capture
\* groups opened so far.
\* ------------------------------------------------------------------------

ParseErr == [err |-> TRUE, node |-> [op |-> "empty"], i |-> 0, g |-> 0]

\* '*', '+', '?' applied to the node n
RepNode(n, c, greedy) ==
    [op |-> "rep", sub |-> n,
     min |-> IF c = "+" THEN 1 ELSE 0,
     many |-> (c # "?"),
     greedy |-> greedy]

RECURSIVE ParseAlt(_, _, _, _)
RECURSIVE ParseCat(_, _, _, _, _)

\* One concatenation, up to '|', ')' or the end.  acc: the nodes read so far;
\* lastRep: the previous token was a repetition operator.
ParseCat(p, i, g, acc, lastRep) ==
    IF i > Len(p) \/ p[i] \in {"|", ")"}
    THEN [err |-> FALSE, node |-> [op |-> "cat", subs |-> acc], i |-> i, g |-> g]
    ELSE LET c == p[i] IN
         CASE c = "(" ->
                LET sub == ParseAlt(p, i + 1, g + 1, <<>>) IN
                IF sub.err \/ sub.i > Len(p)
                THEN ParseErr                       \* missing closing )
                ELSE ParseCat(p, sub.i + 1, sub.g,
                              Append(acc, [op |-> "cap", idx |-> g + 1, sub |-> sub.node]),
                              FALSE)
           [] c \in {"*", "+", "?"} ->
                IF acc = <<>> \/ lastRep
                THEN ParseErr                       \* missing argument / nested repetition
                ELSE LET lazy == i + 1 <= Len(p) /\ p[i + 1] = "?" IN
                     ParseCat(p, IF lazy THEN i + 2 ELSE i + 1, g,
                              [acc EXCEPT ![Len(acc)] = RepNode(@, c, ~lazy)],
                              TRUE)
           [] c = "[" ->
                IF i + 3 <= Len(p) /\ p[i + 1] = "^" /\ p[i + 2] = "/" /\ p[i + 3] = "]"
                THEN ParseCat(p, i + 4, g, Append(acc, [op |-> "notslash"]), FALSE)
                ELSE ParseErr                       \* other classes: outside the model's alphabet
           [] c = "." -> ParseCat(p, i + 1, g, Append(acc, [op |-> "any"]), FALSE)
           [] c = "^" -> ParseCat(p, i + 1, g, Append(acc, [op |-> "bot"]), FALSE)
           [] c = "$" -> ParseCat(p, i + 1, g, Append(acc, [op |-> "eot"]), FALSE)
           [] OTHER   -> ParseCat(p, i + 1, g, Append(acc, [op |-> "lit", c |-> c]), FALSE)

\* An alternation, up to ')' or the end.  alts: the branches read so far.
ParseAlt(p, i, g, alts) ==
    LET br == ParseCat(p, i, g, <<>>, FALSE) IN
    IF br.err THEN ParseErr
    ELSE IF br.i <= Len(p) /\ p[br.i] = "|"
         THEN ParseAlt(p, br.i + 1, br.g, Append(alts, br.node))
         ELSE [err |-> FALSE,
               node |-> [op |-> "alt", subs |-> Append(alts, br.node)],
               i |-> br.i, g |-> br.g]

\* The nil *regexp.Regexp
NilPattern == [valid |-> FALSE]

\* regexp.Compile(src), with the error dropped as the callers drop it: the
\* compiled pattern, or nil when src does not parse.  A compiled pattern is
\* kept as its source and its number of groups; Program gives its parse.
Compile(src) ==
    LET r == ParseAlt(src, 1, 0, <<>>) IN
    IF r.err \/ r.i <= Len(src)                     \* i <= Len: an unexpected ')'
    THEN NilPattern
    ELSE [valid |-> TRUE, src |-> src, n |-> r.g]

Program(re) == ParseAlt(re.src, 1, 0, <<>>).node

\* ------------------------------------------------------------------------
\* Matching: the results of matching a node at position i, as a sequence of
\* [pos, caps] in the order of preference of Go's leftmost-first semantics
\* (first alternative first, greedy repetition longest first).
\* ------------------------------------------------------------------------

RECURSIVE MNode(_, _, _, _)
RECURSIVE MCat(_, _, _, _, _)
RECURSIVE MCatEach(_, _, _, _, _)
RECURSIVE MAlt(_, _, _, _, _)
RECURSIVE MStar(_, _, _, _, _)
RECURSIVE MStarEach(_, _, _, _, _, _)

One(i, caps) == <<[pos |-> i, caps |-> caps]>>

RECURSIVE SetCap(_, _, _, _, _)
SetCap(rs, j, idx, s, i) ==
    IF j > Len(rs) THEN <<>>
    ELSE <<[pos |-> rs[j].pos,
            caps |-> [rs[j].caps EXCEPT ![idx] = SubSeq(s, i, rs[j].pos - 1)]]>>
         \o SetCap(rs, j + 1, idx, s, i)

MNode(n, s, i, caps) ==
    CASE n.op = "lit"      -> IF i <= Len(s) /\ s[i] = n.c THEN One(i + 1, caps) ELSE <<>>
      [] n.op = "any"      -> IF i <= Len(s) /\ s[i] # "\n" THEN One(i + 1, caps) ELSE <<>>
      [] n.op = "notslash" -> IF i <= Len(s) /\ s[i] # "/" THEN One(i + 1, caps) ELSE <<>>
      [] n.op = "bot"      -> IF i = 1 THEN One(i, caps) ELSE <<>>
      [] n.op = "eot"      -> IF i = Len(s) + 1 THEN One(i, caps) ELSE <<>>
      [] n.op = "empty"    -> One(i, caps)
      [] n.op = "cat"      -> MCat(n.subs, 1, s, i, caps)
      [] n.op = "alt"      -> MAlt(n.subs, 1, s, i, caps)
      [] n.op = "cap"      -> SetCap(MNode(n.sub, s, i, caps), 1, n.idx, s, i)
      [] n.op = "rep"      ->
            LET first == MNode(n.sub, s, i, caps)
                more  == IF n.many
                         THEN MStarEach(n.sub, s, first, 1, n.greedy, 0)
                         ELSE first
                none  == IF n.min = 0 THEN One(i, caps) ELSE <<>>
            IN IF n.greedy THEN more \o none ELSE none \o more

\* subs[k..] in sequence from position i
MCat(subs, k, s, i, caps) ==
    IF k > Len(subs) THEN One(i, caps)
    ELSE MCatEach(subs, k, s, MNode(subs[k], s, i, caps), 1)

MCatEach(subs, k, s, rs, j) ==
    IF j > Len(rs) THEN <<>>
    ELSE MCat(subs, k + 1, s, rs[j].pos, rs[j].caps) \o MCatEach(subs, k, s, rs, j + 1)

MAlt(subs, k, s, i, caps) ==
    IF k > Len(subs) THEN <<>>
    ELSE MNode(subs[k], s, i, caps) \o MAlt(subs, k + 1, s, i, caps)

\* zero or more further iterations of sub from position i; an iteration that
\* consumes nothing is not repeated
MStar(sub, s, i, caps, greedy) ==
    LET more == MStarEach(sub, s, MNode(sub, s, i, caps), 1, greedy, i)
    IN IF greedy THEN more \o One(i, caps) ELSE One(i, caps) \o more

\* after each result of one iteration begun at position from, the further
\* iterations; a further iteration that consumed nothing is dropped (from = 0
\* for the first iteration, which counts even when it is empty)
MStarEach(sub, s, rs, j, greedy, from) ==
    IF j > Len(rs) THEN <<>>
    ELSE (IF rs[j].pos = from
          THEN <<>>
          ELSE MStar(sub, s, rs[j].pos, rs[j].caps, greedy))
         \o MStarEach(sub, s, rs, j + 1, greedy, from)

RECURSIVE FindFrom(_, _, _, _)
\* the first match of the program prog (of n groups) that starts at i or later
FindFrom(prog, n, s, i) ==
    IF i > Len(s) + 1 THEN <<>>
    ELSE LET rs == MNode(prog, s, i, [k \in 1..n |-> <<>>]) IN
         IF rs # <<>>
         THEN <<SubSeq(s, i, rs[1].pos - 1)>> \o rs[1].caps
         ELSE FindFrom(prog, n, s, i + 1)

\* (*Regexp).FindStringSubmatch: the leftmost match and its groups, or nil
\* (the empty sequence) when there is none.
FindStringSubmatch(re, s) == FindFrom(Program(re), re.n, s, 1)

\* ------------------------------------------------------------------------
\* pathTransform: `({\w+})` in the Service (and `(<\w+>)` in the earlier
\* HttpService).  open/close are the two delimiters.
\* ------------------------------------------------------------------------

RECURSIVE WordRun(_, _)
\* the first position at or after i that holds no word character
WordRun(s, i) ==
    IF i <= Len(s) /\ s[i] \in WordChars THEN WordRun(s, i + 1) ELSE i

\* The position of the closing delimiter of a placeholder that starts at i,
\* or 0 when no placeholder starts at i.
PlaceholderEnd(s, i, open, close) ==
    IF i <= Len(s) /\ s[i] = open
    THEN LET j == WordRun(s, i + 1) IN
         IF j > i + 1 /\ j <= Len(s) /\ s[j] = close THEN j ELSE 0
    ELSE 0

\* the replacement text `([^/]+)`
SegmentPattern == <<"(", "[", "^", "/", "]", "+", ")">>

RECURSIVE ReplaceAllString(_, _, _, _)
\* pathTransform.ReplaceAllString(s, `([^/]+)`), from position i on
ReplaceAllString(s, i, open, close) ==
    IF i > Len(s) THEN <<>>
    ELSE LET j == PlaceholderEnd(s, i, open, close) IN
         IF j # 0
         THEN SegmentPattern \o ReplaceAllString(s, j + 1, open, close)
         ELSE <<s[i]>> \o ReplaceAllString(s, i + 1, open, close)

\* the limit given to FindAllString
MaxParams == 16

RECURSIVE FindAllNames(_, _, _, _, _)
\* the names arg[1:len(arg)-1] of the first n matches of
\* pathTransform.FindAllString(s, n), from position i on
FindAllNames(s, i, n, open, close) ==
    IF i > Len(s) \/ n = 0 THEN <<>>
    ELSE LET j == PlaceholderEnd(s, i, open, close) IN
         IF j # 0
         THEN <<SubSeq(s, i + 1, j - 1)>> \o FindAllNames(s, j + 1, n - 1, open, close)
         ELSE FindAllNames(s, i + 1, n, open, close)

\* ------------------------------------------------------------------------
\* Route
\* ------------------------------------------------------------------------

\* the nil Dispatcher
NilHandler == [kind |-> "nil"]

\* NewRoute(): &Route{}
NewRoute ==
    [prefix |-> <<>>, name |-> <<>>, pattern |-> NilPattern,
     methods |-> <<>>, params |-> <<>>, handler |-> NilHandler]

\* Route.path
RoutePath(r, path, prefix) ==
    LET routePattern == <<"^">> \o ReplaceAllString(r.prefix \o path, 1, "{", "}")
                        \o (IF ~prefix THEN <<"$">> ELSE <<>>)
    IN [r EXCEPT !.pattern = Compile(routePattern),
                 !.params = FindAllNames(path, 1, MaxParams, "{", "}")]

\* Route.Prefix
RoutePrefix(r, path) == RoutePath([r EXCEPT !.prefix = path], <<>>, FALSE)

\* Route.Get / Put / Post / Delete
RouteMethod(r, m) == [r EXCEPT !.methods = Append(@, m)]

\* Route.match with the method test left out
RouteMatchAnyMethod(r, req) ==
    IF r.pattern = NilPattern
    THEN <<req.uri>>
    ELSE FindStringSubmatch(r.pattern, req.uri)

\* Route.match: the captures (element 1 the whole match), or nil (<<>>)
RouteMatch(r, req) ==
    IF Len(r.methods) # 0 /\ ~(\E k \in 1..Len(r.methods) : r.methods[k] = req.method)
    THEN <<>>
    ELSE IF r.pattern = NilPattern
         THEN <<req.uri>>
         ELSE FindStringSubmatch(r.pattern, req.uri)

\* the Context.Args that Route.apply builds: args[1:]
ApplyArgs(args) == Tail(args)

\* ------------------------------------------------------------------------
\* Decimal numbers.  A 64-bit quantity does not fit the checker's integers,
\* so a magnitude is its sequence of decimal digits without leading zeros
\* (<<"0">> for zero) and an integer is [neg, mag].
\* ------------------------------------------------------------------------

DigitVal(c) ==
    CASE c = "0" -> 0 [] c = "1" -> 1 [] c = "2" -> 2 [] c = "3" -> 3 [] c = "4" -> 4
      [] c = "5" -> 5 [] c = "6" -> 6 [] c = "7" -> 7 [] c = "8" -> 8 [] c = "9" -> 9

DigitChar(n) ==
    CASE n = 0 -> "0" [] n = 1 -> "1" [] n = 2 -> "2" [] n = 3 -> "3" [] n = 4 -> "4"
      [] n = 5 -> "5" [] n = 6 -> "6" [] n = 7 -> "7" [] n = 8 -> "8" [] n = 9 -> "9"

RECURSIVE StripZeros(_)
StripZeros(d) ==
    IF Len(d) > 1 /\ d[1] = "0" THEN StripZeros(Tail(d)) ELSE d

RECURSIVE LexLess(_, _, _)
\* a < b for digit sequences of one length, compared from position i on
LexLess(a, b, i) ==
    IF i > Len(a) THEN FALSE
    ELSE IF a[i] # b[i] THEN DigitVal(a[i]) < DigitVal(b[i])
         ELSE LexLess(a, b, i + 1)

\* a < b for magnitudes
MagLess(a, b) ==
    IF Len(a) # Len(b) THEN Len(a) < Len(b) ELSE LexLess(a, b, 1)

\* 2^n as a magnitude, for the widths of the integer types
TwoTo(n) ==
    CASE n = 7 -> <<"1", "2", "8">>
      [] n = 8 -> <<"2", "5", "6">>
      [] n = 15 -> <<"3", "2", "7", "6", "8">>
      [] n = 16 -> <<"6", "5", "5", "3", "6">>
      [] n = 31 -> <<"2", "1", "4", "7", "4", "8", "3", "6", "4", "8">>
      [] n = 32 -> <<"4", "2", "9", "4", "9", "6", "7", "2", "9", "6">>
      [] n = 63 -> <<"9", "2", "2", "3", "3", "7", "2", "0", "3", "6", "8", "5", "4", "7", "7", "5", "8", "0", "8">>
      [] n = 64 -> <<"1", "8", "4", "4", "6", "7", "4", "4", "0", "7", "3", "7", "0", "9", "5", "5", "1", "6", "1", "6">>

RECURSIVE DecFrom(_, _)
\* d - 1 for a magnitude d >= 1: borrow from position i leftwards
DecFrom(d, i) ==
    IF d[i] = "0" THEN DecFrom([d EXCEPT ![i] = "9"], i - 1)
    ELSE [d EXCEPT ![i] = DigitChar(DigitVal(d[i]) - 1)]

MagPred(d) == StripZeros(DecFrom(d, Len(d)))

IsDigits(s) == Len(s) > 0 /\ \A k \in 1..Len(s) : s[k] \in Digits

\* ------------------------------------------------------------------------
\* strconv.  A parse result is [err, v].
\* ------------------------------------------------------------------------

\* strconv.ParseUint(s, 10, bitSize)
ParseUint(s, bitSize) ==
    IF ~IsDigits(s) THEN [err |-> TRUE, v |-> [neg |-> FALSE, mag |-> <<"0">>]]   \* ErrSyntax
    ELSE LET m == StripZeros(s) IN
         IF MagLess(m, TwoTo(bitSize))
         THEN [err |-> FALSE, v |-> [neg |-> FALSE, mag |-> m]]
         ELSE [err |-> TRUE, v |-> [neg |-> FALSE, mag |-> MagPred(TwoTo(bitSize))]]   \* ErrRange

\* strconv.ParseInt(s, 10, bitSize)
ParseInt(s, bitSize) ==
    LET signed == Len(s) > 0 /\ s[1] \in {"+", "-"}
        neg    == Len(s) > 0 /\ s[1] = "-"
        rest   == IF signed THEN Tail(s) ELSE s
        cutoff == TwoTo(bitSize - 1)
    IN IF ~IsDigits(rest) THEN [err |-> TRUE, v |-> [neg |-> FALSE, mag |-> <<"0">>]]
       ELSE LET m == StripZeros(rest) IN
            IF ~neg /\ ~MagLess(m, cutoff)
            THEN [err |-> TRUE, v |-> [neg |-> FALSE, mag |-> MagPred(cutoff)]]
            ELSE IF neg /\ MagLess(cutoff, m)
                 THEN [err |-> TRUE, v |-> [neg |-> TRUE, mag |-> cutoff]]
                 ELSE [err |-> FALSE, v |-> [neg |-> (neg /\ m # <<"0">>), mag |-> m]]

\* strconv.ParseFloat(s, bitSize) on the model's strings: an optional sign,
\* digits with at most one '.', at least one digit.  The strings of the model
\* are far shorter than the 39 digits at which a float32 overflows, so no
\* range error arises.  The value is kept as the text it was read from.
ParseFloat(s, bitSize) ==
    LET signed == Len(s) > 0 /\ s[1] \in {"+", "-"}
        rest   == IF signed THEN Tail(s) ELSE s
        dots   == {k \in 1..Len(rest) : rest[k] = "."}
        ok     == /\ \A k \in 1..Len(rest) : rest[k] \in Digits \cup {"."}
                  /\ Cardinality(dots) <= 1
                  /\ \E k \in 1..Len(rest) : rest[k] \in Digits
    IN IF ok THEN [err |-> FALSE, v |-> [float |-> bitSize, text |-> s]]
       ELSE [err |-> TRUE, v |-> [float |-> bitSize, text |-> <<"0">>]]

\* Whether the integer v is a value of the integer type of the given width
Fits(v, signed, bits) ==
    IF signed
    THEN IF v.neg THEN ~MagLess(TwoTo(bits - 1), v.mag) ELSE MagLess(v.mag, TwoTo(bits - 1))
    ELSE ~v.neg /\ MagLess(v.mag, TwoTo(bits))

\* The conversions int8(v) ... uint64(v): v when it is a value of the type;
\* otherwise v reduced modulo 2^bits, kept as the term it is
Convert(v, signed, bits) ==
    IF Fits(v, signed, bits) THEN v
    ELSE [wrapped |-> bits, signed |-> signed, of |-> v]

\* the widths an int has in a build (strconv.IntSize)
IntSizes == {32, 64}

\* reflect.Kind of a declared parameter type
IntKinds == {"Int8", "Int16", "Int32", "Int64"}
UintKinds == {"Uint8", "Uint16", "Uint32", "Uint64"}
Kinds == IntKinds \cup UintKinds
         \cup {"Int", "Uint", "Float32", "Float64", "String", "Bool", "Ptr"}

KindBits(t) ==
    CASE t \in {"Int8", "Uint8"} -> 8
      [] t \in {"Int16", "Uint16"} -> 16
      [] t \in {"Int32", "Uint32", "Float32"} -> 32
      [] t \in {"Int64", "Uint64", "Float64"} -> 64

\* coerce with every integer read at 64 bits, whatever the width of its type
coerceWide(s, t, intSize) ==
    CASE t = "Int" ->
            LET r == ParseInt(s, 64) IN [err |-> r.err, v |-> Convert(r.v, TRUE, intSize)]
      [] t \in IntKinds ->
            LET r == ParseInt(s, 64) IN
            [err |-> r.err, v |-> Convert(r.v, TRUE, KindBits(t))]
      [] t \in UintKinds ->
            LET r == ParseUint(s, 64) IN
            [err |-> r.err, v |-> Convert(r.v, FALSE, KindBits(t))]
      [] t \in {"Float32", "Float64"} -> ParseFloat(s, KindBits(t))
      [] t = "String" -> [err |-> FALSE, v |-> s]
      [] OTHER -> [err |-> TRUE, v |-> s]

\* coerce(s, t) in a build whose int has intSize bits
coerce(s, t, intSize) ==
    CASE t = "Int" ->
            LET r == ParseInt(s, 64) IN [err |-> r.err, v |-> Convert(r.v, TRUE, intSize)]
      [] t \in IntKinds ->
            LET r == ParseInt(s, KindBits(t)) IN
            [err |-> r.err, v |-> Convert(r.v, TRUE, KindBits(t))]
      [] t \in UintKinds ->
            LET r == ParseUint(s, KindBits(t)) IN
            [err |-> r.err, v |-> Convert(r.v, FALSE, KindBits(t))]
      [] t \in {"Float32", "Float64"} -> ParseFloat(s, KindBits(t))
      [] t = "String" -> [err |-> FALSE, v |-> s]
      [] OTHER -> [err |-> TRUE, v |-> s]          \* unsupported argument type

\* ------------------------------------------------------------------------
\* http.ResponseWriter: the first WriteHeader commits the status; a Write
\* with no status committed commits 200 first; a later WriteHeader has no
\* effect.  A body chunk is [fmt, of].
\* ------------------------------------------------------------------------

NewWriter == [wrote |-> FALSE, status |-> 0, ctype |-> "", body |-> <<>>]

WriteHeader(w, code) ==
    IF w.wrote THEN w ELSE [w EXCEPT !.wrote = TRUE, !.status = code]

Write(w, chunk) ==
    LET w1 == WriteHeader(w, 200) IN [w1 EXCEPT !.body = Append(@, chunk)]

HeaderSet(w, ct) == [w EXCEPT !.ctype = ct]

\* the status the client receives (httptest.ResponseRecorder.Code)
Code(w) == IF w.wrote THEN w.status ELSE 200

Text(t) == [fmt |-> "text", of |-> t]

\* ------------------------------------------------------------------------
\* Context.  An optional value is <<>> (nil) or <<v>>.  A datum is a token;
\* "chan" stands for a value no codec can encode.
\* ------------------------------------------------------------------------

Encodable(d) == d # <<"chan">>

\* Response{S, E, D}
Envelope(status, e, d) == [S |-> status, E |-> e, D |-> d]

\* Context.Respond with the error string always put in the envelope, the
\* empty string included
RespondKeepEmptyError(w, status, error, data) ==
    LET w1 == HeaderSet(w, "application/json")
        w2 == WriteHeader(w1, status)
    IN IF Encodable(data)
       THEN [w |-> Write(w2, [fmt |-> "json", of |-> Envelope(status, <<error>>, data)]),
             err |-> FALSE]
       ELSE [w |-> w2, err |-> TRUE]

\* Context.Respond(status, error, data), error a string ("" for none) and
\* data an optional datum: [w, err]
Respond(w, status, error, data) ==
    LET w1 == HeaderSet(w, "application/json")
        w2 == WriteHeader(w1, status)
        E  == IF error # "" THEN <<error>> ELSE <<>>
    IN IF Encodable(data)
       THEN [w |-> Write(w2, [fmt |-> "json", of |-> Envelope(status, E, data)]),
             err |-> FALSE]
       ELSE [w |-> w2, err |-> TRUE]

RespondWithErrorMessage(w, error, status) == Respond(w, status, error, <<>>)

RespondWithStatus(w, status) == Respond(w, status, "", <<>>)

RespondWithData(w, v) == Respond(w, 200, "", v)

\* ------------------------------------------------------------------------
\* Dispatchers.  A handler is the nil Dispatcher, a function
\*   [kind |-> "func", id, in, resp]   in: the kinds of the parameters after
\*                                     the *Context; resp: what its body does
\* or an http.Handler [kind |-> "http", id].  Applying a dispatcher gives
\*   [handled, w, calls, panicked]     calls: the handler invocations made.
\* ------------------------------------------------------------------------

NumIn(fn) == 1 + Len(fn.in)

\* the body of a handler function: it responds with a datum, or writes nothing
CallFunction(fn, w, in) ==
    [handled |-> TRUE,
     w |-> IF fn.resp = "data" THEN RespondWithData(w, <<"d">>).w ELSE w,
     calls |-> <<[id |-> fn.id, in |-> in]>>,
     panicked |-> FALSE]

RECURSIVE CoerceArgs(_, _, _, _, _)
\* the loop of FunctionDispatcher over cx.Args from index i: [err, in]
CoerceArgs(args, fn, i, in, intSize) ==
    IF i > Len(args) THEN [err |-> FALSE, in |-> in]
    ELSE LET r == coerce(args[i], fn.in[i], intSize) IN
         IF r.err THEN [err |-> TRUE, in |-> in]
         ELSE CoerceArgs(args, fn, i + 1, Append(in, r.v), intSize)

\* FunctionDispatcher with a coercion failure made final: not found is
\* written and the request is reported as handled
FunctionDispatcherFatalCoercion(fn, cx, intSize) ==
    IF NumIn(fn) # 1 + Len(cx.args)
    THEN [handled |-> TRUE,
          w |-> Write(WriteHeader(cx.w, 500), Text("Invalid number of args")),
          calls |-> <<>>, panicked |-> FALSE]
    ELSE LET c == CoerceArgs(cx.args, fn, 1, <<>>, intSize) IN
         IF c.err
         THEN [handled |-> TRUE, w |-> WriteHeader(cx.w, 404), calls |-> <<>>,
               panicked |-> FALSE]
         ELSE CallFunction(fn, cx.w, c.in)

\* the Dispatcher that FunctionDispatcher(function) returns, applied to cx
FunctionDispatcher(fn, cx, intSize) ==
    IF NumIn(fn) # 1 + Len(cx.args)
    THEN [handled |-> TRUE,
          w |-> Write(WriteHeader(cx.w, 500), Text("Invalid number of args")),
          calls |-> <<>>, panicked |-> FALSE]
    ELSE LET c == CoerceArgs(cx.args, fn, 1, <<>>, intSize) IN
         IF c.err
         THEN [handled |-> FALSE, w |-> cx.w, calls |-> <<>>, panicked |-> FALSE]
         ELSE CallFunction(fn, cx.w, c.in)

\* the Dispatcher that ToHandler / ToHandlerFunc install, applied to cx
HandlerDispatcher(h, cx) ==
    [handled |-> TRUE, w |-> Write(cx.w, Text("ok")),
     calls |-> <<[id |-> h.id, in |-> <<>>]>>, panicked |-> FALSE]

\* a call of the nil Dispatcher: a nil-function panic
Panic(w) == [handled |-> FALSE, w |-> w, calls |-> <<>>, panicked |-> TRUE]

\* Route.apply(args, writer, req): r.handler(&Context{args[1:], writer, req});
\* args[1:] of a nil slice panics
RouteApply(r, args, w, req, intSize) ==
    IF Len(args) = 0 THEN Panic(w)
    ELSE LET cx == [args |-> ApplyArgs(args), w |-> w, req |-> req] IN
         CASE r.handler.kind = "nil"  -> Panic(w)
           [] r.handler.kind = "func" -> FunctionDispatcher(r.handler, cx, intSize)
           [] r.handler.kind = "http" -> HandlerDispatcher(r.handler, cx)

\* NotFoundHandler.ServeHTTP
NotFound(w) == RespondWithStatus(w, 404).w

\* ------------------------------------------------------------------------
\* Service.ServeHTTP.  The outcome of serving a request is
\*   [w, calls, tried, handled, fallback, panicked]
\* calls: the handler invocations [route, id, in] in order; tried: the routes
\* whose dispatcher was applied, in order; handled: a dispatcher reported the
\* request as handled; fallback: how many times the fallback handler ran.
\* ------------------------------------------------------------------------

RECURSIVE TagCalls(_, _)
TagCalls(calls, i) ==
    IF calls = <<>> THEN <<>>
    ELSE <<[route |-> i, id |-> calls[1].id, in |-> calls[1].in]>> \o TagCalls(Tail(calls), i)

RECURSIVE ServeFrom(_, _, _, _, _)
\* the loop of Service.ServeHTTP from route i, with the outcome so far
ServeFrom(rs, i, req, o, intSize) ==
    IF i > Len(rs)
    THEN [o EXCEPT !.w = NotFound(o.w), !.fallback = @ + 1]
    ELSE LET args == RouteMatch(rs[i], req) IN
         IF Len(args) # 0
         THEN LET d  == RouteApply(rs[i], args, o.w, req, intSize)
                  o1 == [o EXCEPT !.w = d.w,
                                  !.calls = @ \o TagCalls(d.calls, i),
                                  !.tried = Append(@, i),
                                  !.handled = d.handled,
                                  !.panicked = d.panicked]
              IN IF d.panicked \/ d.handled THEN o1
                 ELSE ServeFrom(rs, i + 1, req, o1, intSize)
         ELSE ServeFrom(rs, i + 1, req, o, intSize)

NoOutcome ==
    [w |-> NewWriter, calls |-> <<>>, tried |-> <<>>, handled |-> FALSE,
     fallback |-> 0, panicked |-> FALSE]

ServiceServeHTTP(rs, req, intSize) == ServeFrom(rs, 1, req, NoOutcome, intSize)

\* ------------------------------------------------------------------------
\* State
\* ------------------------------------------------------------------------

VARIABLES
    root,       \* Service.Root
    routes,     \* Service.routes, in registration order
    served,     \* the last request served and its outcome: [op, req, out]
    hroutes,    \* HttpService.routes
    rt,         \* a Route built on its own with NewRoute()
    rtPath,     \* the last arguments of Route.path on rt: [path, prefix]
    mt,         \* the last match of a request against rt
    co,         \* the last call of coerce
    enc         \* the last codec operation

vars == <<root, routes, served, hroutes, rt, rtPath, mt, co, enc>>

None == [op |-> "none"]

\* ------------------------------------------------------------------------
\* The Service: registration, then serving.  The table is built before the
\* first request is served and is not changed afterwards.
\* ------------------------------------------------------------------------

\* bound: the number of routes registered
MaxRoutes == 2

A == <<"/", "a">>
X == <<"/", "{", "x", "}">>

SvcTemplates == {A, X}
SvcMethods == {"GET"}
SvcURIs == {A, <<"/", "7">>, <<"/", "b", "/", "c">>}
SvcRequests == [method : {"GET", "POST"}, uri : SvcURIs]

FInt8 == [kind |-> "func", id |-> "fInt8", in |-> <<"Int8">>, resp |-> "data"]
FString == [kind |-> "func", id |-> "fString", in |-> <<"String">>, resp |-> "data"]
HPlain == [kind |-> "http", id |-> "hPlain"]

SvcFunctions == {FInt8, FString}
SvcHandlers == {HPlain}

Registering == served = None /\ UNCHANGED <<root, served, hroutes, rt, rtPath, mt, co, enc>>

\* Service.route(): a new route, under the service's root, appended
ServiceRoute == IF root # <<>> THEN RoutePrefix(NewRoute, root) ELSE NewRoute

CanAdd == Len(routes) < MaxRoutes

Last == Len(routes)

\* Service.Get / Put / Post / Delete
ServiceMethod ==
    /\ Registering /\ CanAdd
    /\ \E m \in SvcMethods : routes' = Append(routes, RouteMethod(ServiceRoute, m))

\* Service.Path
ServicePath ==
    /\ Registering /\ CanAdd
    /\ \E t \in SvcTemplates : routes' = Append(routes, RoutePath(ServiceRoute, t, FALSE))

\* Service.ToFunction / ToMethod
ServiceToFunction ==
    /\ Registering /\ CanAdd
    /\ \E f \in SvcFunctions : routes' = Append(routes, [ServiceRoute EXCEPT !.handler = f])

\* Service.ToHandler / ToHandlerFunc
ServiceToHandler ==
    /\ Registering /\ CanAdd
    /\ \E h \in SvcHandlers : routes' = Append(routes, [ServiceRoute EXCEPT !.handler = h])

\* Route.Get / Put / Post / Delete on the route the service returned last; a
\* method is not registered twice on one route
ChainMethod ==
    /\ Registering /\ Last > 0
    /\ \E m \in SvcMethods :
          /\ \A k \in 1..Len(routes[Last].methods) : routes[Last].methods[k] # m
          /\ routes' = [routes EXCEPT ![Last] = RouteMethod(@, m)]

\* Route.Path on the route the service returned last
ChainPath ==
    /\ Registering /\ Last > 0
    /\ \E t \in SvcTemplates : routes' = [routes EXCEPT ![Last] = RoutePath(@, t, FALSE)]

\* Route.ToFunction / ToMethod on the route the service returned last
ChainToFunction ==
    /\ Registering /\ Last > 0
    /\ \E f \in SvcFunctions : routes' = [routes EXCEPT ![Last].handler = f]

\* Route.ToHandler / ToHandlerFunc on the route the service returned last
ChainToHandler ==
    /\ Registering /\ Last > 0
    /\ \E h \in SvcHandlers : routes' = [routes EXCEPT ![Last].handler = h]

\* Service.ServeHTTP
Serve ==
    /\ \E req \in SvcRequests, intSize \in IntSizes :
          served' = [op |-> "Service", req |-> req, intSize |-> intSize,
                     out |-> ServiceServeHTTP(routes, req, intSize)]
    /\ UNCHANGED <<root, routes, hroutes, rt, rtPath, mt, co, enc>>

\* ------------------------------------------------------------------------
\* The earlier HttpService (package main of webservice.go): routes are
\* registered whole, by HttpService.Route, against the methods of a target.
\* ------------------------------------------------------------------------

\* the methods of the target (MyService): the kinds of their parameters
\* after the context; their bodies write nothing
TargetMethods == {"Create", "Read"}

TargetFunction(name) ==
    [kind |-> "func", id |-> name,
     in |-> IF name = "Create" THEN <<>> ELSE <<"Int">>,
     resp |-> "none"]

\* NewRoute(path, method, function, handler) of the HttpService
HttpNewRoute(path, method, function) ==
    [pattern |-> Compile(<<"^">> \o ReplaceAllString(path, 1, "<", ">") \o <<"$">>),
     method |-> method,
     params |-> FindAllNames(path, 1, MaxParams, "<", ">"),
     function |-> function]

\* HttpService.coerce
HttpCoerce(s, t, intSize) ==
    CASE t = "Int" ->
            LET r == ParseInt(s, 64) IN [err |-> r.err, v |-> Convert(r.v, TRUE, intSize)]
      [] t \in {"Float32", "Float64"} -> ParseFloat(s, KindBits(t))
      [] t = "String" -> [err |-> FALSE, v |-> s]
      [] OTHER -> [err |-> TRUE, v |-> s]

RECURSIVE HttpCoerceArgs(_, _, _, _, _)
HttpCoerceArgs(args, fn, i, in, intSize) ==
    IF i > Len(args) THEN [err |-> FALSE, in |-> in]
    ELSE LET r == HttpCoerce(args[i], fn.in[i], intSize) IN
         IF r.err THEN [err |-> TRUE, in |-> in]
         ELSE HttpCoerceArgs(args, fn, i + 1, Append(in, r.v), intSize)

\* the RouteHandler closure of HttpService.Route, applied to args (the
\* captures after the whole match).  make([]reflect.Value, 1, len(args))
\* panics when there is no capture.
HttpRouteHandler(r, args, w, intSize) ==
    IF Len(args) < 1 THEN Panic(w)
    ELSE IF NumIn(r.function) # Len(args) + 1
         THEN [handled |-> TRUE, w |-> WriteHeader(w, 500),
               calls |-> <<>>, panicked |-> FALSE]
         ELSE LET c == HttpCoerceArgs(args, r.function, 1, <<>>, intSize) IN
              IF c.err
              THEN [handled |-> FALSE, w |-> w, calls |-> <<>>, panicked |-> FALSE]
              ELSE CallFunction(r.function, w, c.in)

\* http.NotFoundHandler(): http.Error(w, "404 page not found", 404)
HttpNotFound(w) ==
    Write(WriteHeader(HeaderSet(w, "text/plain; charset=utf-8"), 404),
          Text("404 page not found"))

RECURSIVE HttpServeFrom(_, _, _, _, _)
\* the loop of HttpService.ServeHTTP from route i: a handled request breaks
\* out of the loop, and the Fallback is served after the loop
HttpServeFrom(rs, i, req, o, intSize) ==
    IF i > Len(rs)
    THEN [o EXCEPT !.w = HttpNotFound(o.w), !.fallback = @ + 1]
    ELSE IF rs[i].method # req.method
         THEN HttpServeFrom(rs, i + 1, req, o, intSize)
         ELSE IF rs[i].pattern = NilPattern
              THEN [o EXCEPT !.panicked = TRUE]     \* FindStringSubmatch on a nil *Regexp
              ELSE LET args == FindStringSubmatch(rs[i].pattern, req.uri) IN
                   IF Len(args) # 0
                   THEN LET d  == HttpRouteHandler(rs[i], Tail(args), o.w, intSize)
                            o1 == [o EXCEPT !.w = d.w,
                                            !.calls = @ \o TagCalls(d.calls, i),
                                            !.tried = Append(@, i),
                                            !.handled = d.handled,
                                            !.panicked = d.panicked]
                        IN IF d.panicked THEN o1
                           ELSE IF d.handled
                                THEN HttpServeFrom(rs, Len(rs) + 1, req, o1, intSize)  \* break
                                ELSE HttpServeFrom(rs, i + 1, req, o1, intSize)
                   ELSE HttpServeFrom(rs, i + 1, req, o, intSize)

HttpServiceServeHTTP(rs, req, intSize) ==
    HttpServeFrom(rs, 1, req, NoOutcome, intSize)

HA == <<"/", "a">>
HX == <<"/", "<", "x", ">">>
HXY == <<"/", "<", "x", ">", "/", "<", "y", ">">>
HBad == <<"/", "(">>

HttpPaths == {HA, HX, HXY, HBad}
HttpMethodNames == TargetMethods \cup {"Deete"}
HttpURIs == {A, <<"/", "7">>, <<"/", "7", "/", "8">>}
HttpRequests == [method : {"GET", "POST"}, uri : HttpURIs]

\* HttpService.Get / Post / Put / Delete, through HttpService.Route: an
\* unknown method name is an error and registers nothing
HttpRoute ==
    /\ served = None
    /\ Len(hroutes) < MaxRoutes
    /\ \E method \in {"GET", "POST"}, path \in HttpPaths, name \in HttpMethodNames :
          hroutes' = IF name \in TargetMethods
                     THEN Append(hroutes, HttpNewRoute(root \o path, method, TargetFunction(name)))
                     ELSE hroutes
    /\ UNCHANGED <<root, routes, served, rt, rtPath, mt, co, enc>>

\* HttpService.ServeHTTP
HttpServe ==
    /\ \E req \in HttpRequests, intSize \in IntSizes :
          served' = [op |-> "HttpService", req |-> req, intSize |-> intSize,
                     out |-> HttpServiceServeHTTP(hroutes, req, intSize)]
    /\ UNCHANGED <<root, routes, hroutes, rt, rtPath, mt, co, enc>>

\* ------------------------------------------------------------------------
\* A Route on its own: built with NewRoute(), given a prefix, a path and a
\* handler, and served through Route.ServeHTTP.
\* ------------------------------------------------------------------------

XY == <<"/", "{", "x", "}", "/", "{", "y", "}">>
XAdjacent == <<"/", "{", "x", "}", "{", "y", "}">>
Dot == <<"/", "a", ".", "b">>
Plus == <<"/", "a", "+">>
PlusX == <<"/", "a", "+", "/", "{", "x", "}">>
Paren == <<"/", "a", "(">>
ParenX == <<"/", "a", "(", "/", "{", "x", "}">>
OpenBrace == <<"/", "{", "x">>

\* the templates given to Route.Path / Route.PathPrefix
PathTemplates == {<<>>, A, X, XY, XAdjacent, Dot, Plus, PlusX, Paren, ParenX, OpenBrace}

\* the templates given to Route.Prefix
PathPrefixes == {<<"/", "p">>, <<"/", "{", "z", "}">>}

\* the values put in the place of a placeholder to build a request path
PathValues == {<<>>, <<"7">>, <<"a", "b">>, <<"a", "/", "b">>}

RECURSIVE Substitute(_, _, _, _)
\* the template t from position i on, with its placeholders replaced by
\* vals[k], vals[k + 1], ...
Substitute(t, i, vals, k) ==
    IF i > Len(t) THEN <<>>
    ELSE LET j == PlaceholderEnd(t, i, "{", "}") IN
         IF j # 0
         THEN vals[k] \o Substitute(t, j + 1, vals, k + 1)
         ELSE <<t[i]>> \o Substitute(t, i + 1, vals, k)

\* the number of placeholders of the template t
NumPlaceholders(t) == Len(FindAllNames(t, 1, Len(t), "{", "}"))

ValSeqs(n) == [1..n -> PathValues]

\* the request paths built from the template t
URIsOf(t) == {Substitute(t, 1, vals, 1) : vals \in ValSeqs(NumPlaceholders(t))}

\* further request paths
OtherURIs ==
    {A, <<"/", "a", "x", "b">>, <<"/", "a", "a">>, <<"/", "p">>,
     <<"/", "p", "/", "a">>, <<"/", "b", "/", "c">>, <<"/">>}

\* handler functions of n string parameters after the context
FStrings(n) ==
    [kind |-> "func", id |-> "fStrings", in |-> [k \in 1..n |-> "String"], resp |-> "data"]

\* the template that the pattern of rt was compiled from: r.prefix + path
Template == rt.prefix \o rtPath.path

Building == UNCHANGED <<root, routes, served, hroutes, co, enc>>

\* rt.Prefix(path)
RtPrefix ==
    /\ \E path \in PathPrefixes :
          /\ rt' = RoutePrefix(rt, path)
          /\ rtPath' = [op |-> "Prefix", path |-> <<>>, prefix |-> FALSE]
    /\ mt' = None
    /\ Building

\* rt.Path(path)
RtPath ==
    /\ \E path \in PathTemplates :
          /\ rt' = RoutePath(rt, path, FALSE)
          /\ rtPath' = [op |-> "Path", path |-> path, prefix |-> FALSE]
    /\ mt' = None
    /\ Building

\* rt.PathPrefix(path)
RtPathPrefix ==
    /\ \E path \in PathTemplates :
          /\ rt' = RoutePath(rt, path, TRUE)
          /\ rtPath' = [op |-> "PathPrefix", path |-> path, prefix |-> TRUE]
    /\ mt' = None
    /\ Building

\* rt.ToFunction(f)
RtToFunction ==
    /\ \E n \in 1..2 : rt' = [rt EXCEPT !.handler = FStrings(n)]
    /\ mt' = None
    /\ UNCHANGED rtPath
    /\ Building

\* rt.ToHandler(h)
RtToHandler ==
    /\ rt' = [rt EXCEPT !.handler = HPlain]
    /\ mt' = None
    /\ UNCHANGED rtPath
    /\ Building

\* Route.ServeHTTP(writer, req) on rt: r.apply(r.match(req), writer, req)
RtServeHTTP ==
    /\ rtPath # None
    /\ \E uri \in URIsOf(Template) \cup OtherURIs, intSize \in IntSizes :
          LET req  == [method |-> "GET", uri |-> uri]
              args == RouteMatch(rt, req)
          IN mt' = [op |-> "ServeHTTP", req |-> req, args |-> args,
                    out |-> RouteApply(rt, args, NewWriter, req, intSize)]
    /\ UNCHANGED <<rt, rtPath>>
    /\ Building

\* ------------------------------------------------------------------------
\* The dispatch binder on one captured parameter: FunctionDispatcher of a
\* function (cx *Context, p T), applied to a context with Args = [s].
\* ------------------------------------------------------------------------

\* the captured strings: the least and greatest value of every integer type,
\* their neighbours outside the type, and strings that are no integers
CoerceStrings ==
    {<<"1", "2", "7">>,
     <<"1", "2", "8">>,
     <<"-", "1", "2", "8">>,
     <<"-", "1", "2", "9">>,
     <<"2", "5", "5">>,
     <<"2", "5", "6">>,
     <<"3", "2", "7", "6", "7">>,
     <<"3", "2", "7", "6", "8">>,
     <<"-", "3", "2", "7", "6", "8">>,
     <<"-", "3", "2", "7", "6", "9">>,
     <<"6", "5", "5", "3", "5">>,
     <<"6", "5", "5", "3", "6">>,
     <<"2", "1", "4", "7", "4", "8", "3", "6", "4", "7">>,
     <<"2", "1", "4", "7", "4", "8", "3", "6", "4", "8">>,
     <<"-", "2", "1", "4", "7", "4", "8", "3", "6", "4", "8">>,
     <<"-", "2", "1", "4", "7", "4", "8", "3", "6", "4", "9">>,
     <<"4", "2", "9", "4", "9", "6", "7", "2", "9", "5">>,
     <<"4", "2", "9", "4", "9", "6", "7", "2", "9", "6">>,
     <<"9", "2", "2", "3", "3", "7", "2", "0", "3", "6", "8", "5", "4", "7", "7", "5", "8", "0", "7">>,
     <<"9", "2", "2", "3", "3", "7", "2", "0", "3", "6", "8", "5", "4", "7", "7", "5", "8", "0", "8">>,
     <<"-", "9", "2", "2", "3", "3", "7", "2", "0", "3", "6", "8", "5", "4", "7", "7", "5", "8", "0", "8">>,
     <<"-", "9", "2", "2", "3", "3", "7", "2", "0", "3", "6", "8", "5", "4", "7", "7", "5", "8", "0", "9">>,
     <<"1", "8", "4", "4", "6", "7", "4", "4", "0", "7", "3", "7", "0", "9", "5", "5", "1", "6", "1", "5">>,
     <<"1", "8", "4", "4", "6", "7", "4", "4", "0", "7", "3", "7", "0", "9", "5", "5", "1", "6", "1", "6">>,
     <<"0">>,
     <<"-", "0">>,
     <<"-", "1">>,
     <<"+", "7">>,
     <<"0", "0", "7">>,
     <<"3", ".", "1", "4">>,
     <<>>,
     <<"-">>,
     <<"a", "b", "c">>,
     <<"7", "a">>,
     <<".", "5">>,
     <<"1", ".", "2", ".", "3">>,
     <<"-", "3", ".", "1", "4">>}

\* func(cx *Context, p T), T of kind t
FOne(t) == [kind |-> "func", id |-> "fOne", in |-> <<t>>, resp |-> "data"]

\* FunctionDispatcher(f)(cx) for f of one parameter of kind t and cx.Args = [s]
DispatchOne ==
    /\ \E s \in CoerceStrings, t \in Kinds, intSize \in IntSizes :
          co' = [op |-> "coerce", s |-> s, t |-> t, intSize |-> intSize,
                 r |-> coerce(s, t, intSize),
                 d |-> FunctionDispatcher(FOne(t),
                          [args |-> <<s>>, w |-> NewWriter,
                           req |-> [method |-> "GET", uri |-> <<"/">> \o s]],
                          intSize)]
    /\ UNCHANGED <<root, routes, served, hroutes, rt, rtPath, mt, enc>>

\* ------------------------------------------------------------------------
\* Codecs.  A byte stream is a sequence of chunks [fmt, of]: the value `of`
\* in the wire format fmt.  A value is a Response envelope [S, E, D] or a
\* request value [Seen, Message] (the Req of the tests).  The result of
\* encoding is [err, out]: what was written, and whether the encoder failed.
\* ------------------------------------------------------------------------

Registered == {"application/json", "application/x-msgpack", "application/bson"}

\* whether the encoders can encode v: a channel in the data of an envelope
\* cannot be encoded
Marshalable(v) == IF "D" \in DOMAIN v THEN Encodable(v.D) ELSE TRUE

\* a string as encoding/json writes it: a byte that is not valid UTF-8
\* ("xFF") is replaced by the replacement character ("uFFFD")
ToValidUTF8(str) == [k \in 1..Len(str) |-> IF str[k] = "xFF" THEN "uFFFD" ELSE str[k]]

\* json.NewEncoder(w).Encode(v): the value is marshalled whole, then written
JsonEncode(v) ==
    IF Marshalable(v)
    THEN [err |-> FALSE,
          out |-> <<[fmt |-> "json",
                     of |-> IF "Message" \in DOMAIN v
                            THEN [v EXCEPT !.Message = ToValidUTF8(@)]
                            ELSE v]>>]
    ELSE [err |-> TRUE, out |-> <<>>]

\* msgpack.NewEncoder(w).Encode(v): the fields are written one after the
\* other, so a failing encoder may have written the fields before the one it
\* failed on (partial) or nothing
MsgpackEncode(v, partial) ==
    IF Marshalable(v)
    THEN [err |-> FALSE, out |-> <<[fmt |-> "msgpack", of |-> v]>>]
    ELSE [err |-> TRUE,
          out |-> IF partial THEN <<[fmt |-> "msgpack-truncated", of |-> v]>> ELSE <<>>]

\* bsonEncoder.Encode: bson.Marshal(v), then one Write
BsonEncode(v) ==
    IF Marshalable(v)
    THEN [err |-> FALSE, out |-> <<[fmt |-> "bson", of |-> v]>>]
    ELSE [err |-> TRUE, out |-> <<>>]

\* Base64Encoder.Encode: what the inner encoder wrote, in base64; the deferred
\* Close flushes it also when the inner encoder failed
Base64Encode(inner) ==
    [err |-> inner.err,
     out |-> IF inner.out = <<>> THEN <<>>
             ELSE <<[fmt |-> "base64", of |-> inner.out[1]]>>]

\* Serializer.NewEncoder(w).Encode(v) with the msgpack and bson encoders not
\* wrapped in base64
NewEncoderPlain(ct, v, partial) ==
    CASE ct = "application/json"      -> JsonEncode(v)
      [] ct = "application/x-msgpack" -> MsgpackEncode(v, partial)
      [] ct = "application/bson"      -> BsonEncode(v)

\* Serializer.NewEncoder(w).Encode(v) for the serializer registered for ct
NewEncoder(ct, v, partial) ==
    CASE ct = "application/json"      -> JsonEncode(v)
      [] ct = "application/x-msgpack" -> Base64Encode(MsgpackEncode(v, partial))
      [] ct = "application/bson"      -> Base64Encode(BsonEncode(v))

\* the decoders: [err, v] from the byte stream r; v is <<>> on an error
NoValue == [err |-> TRUE, v |-> <<>>]

JsonDecode(r) ==
    IF r # <<>> /\ r[1].fmt = "json" THEN [err |-> FALSE, v |-> <<r[1].of>>] ELSE NoValue

MsgpackDecode(r) ==
    IF r # <<>> /\ r[1].fmt = "msgpack" THEN [err |-> FALSE, v |-> <<r[1].of>>] ELSE NoValue

BsonDecode(r) ==
    IF r # <<>> /\ r[1].fmt = "bson" THEN [err |-> FALSE, v |-> <<r[1].of>>] ELSE NoValue

\* base64.NewDecoder(base64.StdEncoding, r): the stream that r encodes; a
\* stream that is not base64 decodes to nothing that the inner decoder reads
Base64Decode(r) ==
    IF r # <<>> /\ r[1].fmt = "base64" THEN <<r[1].of>> ELSE <<>>

\* Serializer.NewDecoder(r).Decode(v) with the msgpack and bson decoders not
\* reading through base64
NewDecoderPlain(ct, r) ==
    CASE ct = "application/json"      -> JsonDecode(r)
      [] ct = "application/x-msgpack" -> MsgpackDecode(r)
      [] ct = "application/bson"      -> BsonDecode(r)

\* Serializer.NewDecoder(r).Decode(v) for the serializer registered for ct
NewDecoder(ct, r) ==
    CASE ct = "application/json"      -> JsonDecode(r)
      [] ct = "application/x-msgpack" -> MsgpackDecode(Base64Decode(r))
      [] ct = "application/bson"      -> BsonDecode(Base64Decode(r))

RECURSIVE WriteAll(_, _)
\* the chunks out, written to w one after the other
WriteAll(w, out) ==
    IF out = <<>> THEN w ELSE WriteAll(Write(w, out[1]), Tail(out))

\* SerializerMap.Encode(ct, w, v): [w, err], err one of "nil",
\* "UnsupportedContentType" and "codec" (the error of the encoder)
SerializerMapEncode(ct, w, v, partial) ==
    IF ct \in Registered
    THEN LET e == NewEncoder(ct, v, partial) IN
         [w |-> WriteAll(w, e.out), err |-> IF e.err THEN "codec" ELSE "nil"]
    ELSE [w |-> w, err |-> "UnsupportedContentType"]

\* SerializerMap.Decode(ct, r, v): [err, v]
SerializerMapDecode(ct, r) ==
    IF ct \in Registered
    THEN LET d == NewDecoder(ct, r) IN
         [err |-> IF d.err THEN "codec" ELSE "nil", v |-> d.v]
    ELSE [err |-> "UnsupportedContentType", v |-> <<>>]

\* SerializerMap.DecodeRequest(req, v)
SerializerMapDecodeRequest(req) == SerializerMapDecode(req.ctype, req.body)

\* the content type that the response is written in
Selected(accept, ctype) == IF accept = "" THEN ctype ELSE accept

\* SerializerMap.EncodeResponse(req, resp, response): [w, err]
SerializerMapEncodeResponse(accept, ctype, resp, response, partial) ==
    LET ct == Selected(accept, ctype)
        e  == SerializerMapEncode(ct, HeaderSet(resp, ct), response, partial)
    IN IF e.err # "nil"
       THEN [w |-> WriteHeader(e.w, 400), err |-> "UnsupportedContentType"]
       ELSE [w |-> WriteHeader(e.w, response.S), err |-> "nil"]

\* the earlier SerializerMap.Encode(req, resp, response): [w, err]
SerializerMapEncodeEarlier(accept, ctype, resp, response, partial) ==
    LET ct == Selected(accept, ctype)
        w1 == HeaderSet(resp, ct)
    IN IF ct \in Registered
       THEN LET e == NewEncoderPlain(ct, response, partial) IN
            [w |-> WriteAll(WriteHeader(w1, response.S), e.out),
             err |-> IF e.err THEN "codec" ELSE "nil"]
       ELSE [w |-> WriteHeader(w1, 400), err |-> "UnsupportedContentType"]

\* the content types of the requests, "" for a header that is absent
ContentTypes == Registered \cup {"application/xml", ""}

\* the envelopes handed to EncodeResponse
Responses ==
    {Envelope(200, <<>>, <<"d">>), Envelope(200, <<>>, <<"chan">>),
     Envelope(404, <<"not found">>, <<>>), Envelope(500, <<"error">>, <<"chan">>)}

\* SerializerMap.EncodeResponse
EncodeResponse ==
    /\ \E accept \in ContentTypes, ctype \in ContentTypes, response \in Responses,
          partial \in BOOLEAN :
          enc' = [op |-> "EncodeResponse", accept |-> accept, ctype |-> ctype,
                  response |-> response,
                  out |-> SerializerMapEncodeResponse(accept, ctype, NewWriter,
                                                      response, partial)]
    /\ UNCHANGED <<root, routes, served, hroutes, rt, rtPath, mt, co>>

\* the earlier SerializerMap.Encode
EncodeEarlier ==
    /\ \E accept \in ContentTypes, ctype \in ContentTypes, response \in Responses,
          partial \in BOOLEAN :
          enc' = [op |-> "Encode", accept |-> accept, ctype |-> ctype,
                  response |-> response,
                  out |-> SerializerMapEncodeEarlier(accept, ctype, NewWriter,
                                                     response, partial)]
    /\ UNCHANGED <<root, routes, served, hroutes, rt, rtPath, mt, co>>

\* ------------------------------------------------------------------------
\* A route with a declared request body.  Route.DecodeRequest and the
\* dispatcher that decodes the body are not in the sources; they are written
\* here from the specification's binding rules: the body is decoded through
\* the codec registry (a failure answers 400 and stops), the handler must
\* declare 1 + 1 + len(args) parameters (else 500), the captured parameters
\* are coerced (a failure is a non-match), and the handler is called with
\* the context, the decoded body and the coerced parameters.
\* ------------------------------------------------------------------------

\* the values of the declared body type Req{Seen bool, Message string}
ReqValues ==
    [Seen : BOOLEAN, Message : {<<>>, <<"h", "i">>, <<"h", "xFF">>}]

\* func(cx *Context, req *Req)
FBody == [kind |-> "func", id |-> "fBody", in |-> <<"Ptr">>, resp |-> "none"]

\* NewRoute().Get().Path("/").DecodeRequest(&Req{}).ToFunction(handler)
BodyRoute ==
    [RoutePath(RouteMethod(NewRoute, "GET"), <<"/">>, FALSE)
        EXCEPT !.handler = [kind |-> "body", fn |-> FBody]]

\* the dispatcher of a route with a declared body, applied to cx
BodyDispatcher(fn, cx, intSize) ==
    LET b == SerializerMapDecodeRequest(cx.req) IN
    IF b.err # "nil"
    THEN [handled |-> TRUE, w |-> WriteHeader(cx.w, 400), calls |-> <<>>,
          panicked |-> FALSE]
    ELSE IF NumIn(fn) # 1 + 1 + Len(cx.args)
         THEN [handled |-> TRUE, w |-> WriteHeader(cx.w, 500), calls |-> <<>>,
               panicked |-> FALSE]
         ELSE LET rest == [fn EXCEPT !.in = Tail(@)]
                  c    == CoerceArgs(cx.args, rest, 1, <<>>, intSize)
              IN IF c.err
                 THEN [handled |-> FALSE, w |-> cx.w, calls |-> <<>>, panicked |-> FALSE]
                 ELSE CallFunction(fn, cx.w, b.v \o c.in)

\* Route.apply for a route that may declare a body
BodyRouteApply(r, args, w, req, intSize) ==
    IF Len(args) # 0 /\ r.handler.kind = "body"
    THEN BodyDispatcher(r.handler.fn, [args |-> ApplyArgs(args), w |-> w, req |-> req],
                        intSize)
    ELSE RouteApply(r, args, w, req, intSize)

\* http.NewRequest(method, "http://example.com" + path, body) with the
\* headers Content-Type and Accept set to ct, as the tests build a request:
\* RequestURI is set by a server only, and is empty here
ClientRequest(method, path, ct, body) ==
    [method |-> method, uri |-> <<>>, ctype |-> ct, accept |-> ct, body |-> body]

\* the same request as a server receives it: RequestURI is the path
ServerRequest(method, path, ct, body) ==
    [method |-> method, uri |-> path, ctype |-> ct, accept |-> ct, body |-> body]

\* a request for "/" whose body is v encoded for the content type bodyCt,
\* with Content-Type = Accept = ct, matched against the route with the
\* declared body and applied: r.match(req), then r.apply(args, writer, req)
ServeBody ==
    /\ \E ct \in ContentTypes, bodyCt \in Registered, v \in ReqValues,
          received \in BOOLEAN, intSize \in IntSizes :
          LET body == SerializerMapEncode(bodyCt, NewWriter, v, FALSE).w.body
              req  == IF received
                      THEN ServerRequest("GET", <<"/">>, ct, body)
                      ELSE ClientRequest("GET", <<"/">>, ct, body)
              args == RouteMatch(BodyRoute, req)
          IN enc' = [op |-> "ServeBody", ct |-> ct, bodyCt |-> bodyCt, v |-> v,
                     received |-> received, args |-> args,
                     out |-> BodyRouteApply(BodyRoute, args, NewWriter, req, intSize)]
    /\ UNCHANGED <<root, routes, served, hroutes, rt, rtPath, mt, co>>

\* ------------------------------------------------------------------------
\* A handler responding through its Context: up to MaxResponds calls of the
\* response operations on the ResponseWriter of one request.
\* ------------------------------------------------------------------------

\* bound: the number of response operations a handler calls on one request
MaxResponds == 2

RespondOps == {"Respond", "RespondWithData", "RespondWithStatus", "RespondWithErrorMessage"}

\* the arguments the handlers respond with
Statuses == {200, 400, 404, 500}
ErrorStrings == {"", "oops"}
Data == {<<>>, <<"d">>, <<"chan">>}

\* cx.ResponseWriter before the next call, and the number of calls made
CxWriter == IF enc.op \in RespondOps THEN enc.out.w ELSE NewWriter
CxCalls == IF enc.op \in RespondOps THEN enc.n ELSE 0

Responding ==
    /\ CxCalls < MaxResponds
    /\ UNCHANGED <<root, routes, served, hroutes, rt, rtPath, mt, co>>

\* cx.Respond(status, error, data)
CxRespond ==
    /\ Responding
    /\ \E status \in Statuses, error \in ErrorStrings, data \in Data :
          enc' = [op |-> "Respond", status |-> status, error |-> error, data |-> data,
                  n |-> CxCalls + 1, before |-> CxWriter,
                  out |-> Respond(CxWriter, status, error, data)]

\* cx.RespondWithData(v)
CxRespondWithData ==
    /\ Responding
    /\ \E data \in Data :
          enc' = [op |-> "RespondWithData", status |-> 200, error |-> "", data |-> data,
                  n |-> CxCalls + 1, before |-> CxWriter,
                  out |-> RespondWithData(CxWriter, data)]

\* cx.RespondWithStatus(status)
CxRespondWithStatus ==
    /\ Responding
    /\ \E status \in Statuses :
          enc' = [op |-> "RespondWithStatus", status |-> status, error |-> "",
                  data |-> <<>>, n |-> CxCalls + 1, before |-> CxWriter,
                  out |-> RespondWithStatus(CxWriter, status)]

\* cx.RespondWithErrorMessage(error, status)
CxRespondWithErrorMessage ==
    /\ Responding
    /\ \E status \in Statuses, error \in ErrorStrings :
          enc' = [op |-> "RespondWithErrorMessage", status |-> status, error |-> error,
                  data |-> <<>>, n |-> CxCalls + 1, before |-> CxWriter,
                  out |-> RespondWithErrorMessage(CxWriter, error, status)]

Init ==
    /\ root = <<>>
    /\ routes = <<>>
    /\ served = None
    /\ hroutes = <<>>
    /\ rt = NewRoute
    /\ rtPath = None
    /\ mt = None
    /\ co = None
    /\ enc = None

Next ==
    \/ ServiceMethod
    \/ ServicePath
    \/ ServiceToFunction
    \/ ServiceToHandler
    \/ ChainMethod
    \/ ChainPath
    \/ ChainToFunction
    \/ ChainToHandler
    \/ Serve

Spec == Init /\ [][Next]_vars

NextHttp ==
    \/ HttpRoute
    \/ HttpServe

SpecHttp == Init /\ [][NextHttp]_vars

NextPath ==
    \/ RtPrefix
    \/ RtPath
    \/ RtPathPrefix
    \/ RtToFunction
    \/ RtToHandler
    \/ RtServeHTTP

SpecPath == Init /\ [][NextPath]_vars

NextCoerce == DispatchOne

SpecCoerce == Init /\ [][NextCoerce]_vars

NextCodec ==
    \/ EncodeResponse
    \/ EncodeEarlier
    \/ ServeBody

SpecCodec == Init /\ [][NextCodec]_vars

NextRespond ==
    \/ CxRespond
    \/ CxRespondWithData
    \/ CxRespondWithStatus
    \/ CxRespondWithErrorMessage

SpecRespond == Init /\ [][NextRespond]_vars

\* ------------------------------------------------------------------------
\* Properties of the route table
\* ------------------------------------------------------------------------

\* the request and the outcome of the request served last
Req == served.req
Out == served.out

\* r's method set is empty or contains the request method
MethodOK(r, req) ==
    Len(r.methods) = 0 \/ \E k \in 1..Len(r.methods) : r.methods[k] = req.method

\* what r's path pattern captures of the path; a route without a pattern
\* captures the path whole
PathCaptures(r, uri) ==
    IF r.pattern = NilPattern THEN <<uri>> ELSE FindStringSubmatch(r.pattern, uri)

Candidate(r, req) == MethodOK(r, req) /\ PathCaptures(r, req.uri) # <<>>

\* what r's dispatcher does with the request, on a fresh writer
Applied(r, req, intSize) ==
    RouteApply(r, PathCaptures(r, req.uri), NewWriter, req, intSize)

\* r's dispatcher ends the scan: it accepts the request, or it panics
Stops(r, req, intSize) ==
    Candidate(r, req)
    /\ (Applied(r, req, intSize).handled \/ Applied(r, req, intSize).panicked)

Accepts(r, req, intSize) == Candidate(r, req) /\ Applied(r, req, intSize).handled

\* r's handler is a function of the right arity, one of whose parameters
\* does not coerce
CoercionFails(r, req, intSize) ==
    /\ r.handler.kind = "func"
    /\ LET args == Tail(PathCaptures(r, req.uri)) IN
          /\ NumIn(r.handler) = 1 + Len(args)
          /\ \E k \in 1..Len(args) : coerce(args[k], r.handler.in[k], intSize).err

\* r's handler is a function whose arity differs from 1 + the captures
ArityMismatch(r, req) ==
    /\ r.handler.kind = "func"
    /\ NumIn(r.handler) # 1 + Len(Tail(PathCaptures(r, req.uri)))

Indexes(n) == [i \in 1..n |-> i]

\* the routes the scan applies: the candidates no earlier route stops
ExpectedTried ==
    LET Reached(i) == /\ Candidate(routes[i], Req)
                      /\ \A j \in 1..(i - 1) : ~Stops(routes[j], Req, served.intSize)
    IN SelectSeq(Indexes(Len(routes)), Reached)

\* C1: Service.ServeHTTP applies the dispatchers of the candidate routes
\* (method set empty or holding the request method, and path pattern
\* matching) in registration order, up to the first that accepts; the only
\* handler invoked is the handler of that first accepting candidate: no
\* handler of an earlier or of a later route, and none of a non-candidate.
C1_FirstAcceptingCandidate ==
    served.op = "Service" =>
        /\ Out.tried = ExpectedTried
        /\ Len(Out.calls) <= 1
        /\ \A k \in 1..Len(Out.calls) :
              LET i == Out.calls[k].route IN
              /\ i \in 1..Len(routes)
              /\ Accepts(routes[i], Req, served.intSize)
              /\ \A j \in 1..(i - 1) : ~Accepts(routes[j], Req, served.intSize)
              /\ Out.calls[k].id = routes[i].handler.id

\* a request whose handler is that of the second route, the first route
\* having a handler but not being a candidate
C1_Witness ==
    /\ served.op = "Service"
    /\ Len(routes) = 2
    /\ routes[1].handler # NilHandler
    /\ ~Candidate(routes[1], Req)
    /\ Len(Out.calls) = 1
    /\ Out.calls[1].route = 2

\* C2: a coercion failure is not fatal.  The dispatcher of a route whose
\* parameter does not coerce invokes no handler and writes nothing, and the
\* scan goes on: a later candidate is tried, and when the scan ends with the
\* rejection the fallback alone produces the response, 404.  The response
\* of a request that a later route accepts is the one that route's
\* dispatcher writes on a writer nothing was written to.
C2_CoercionFailureFallsThrough ==
    served.op = "Service" =>
        /\ \A k \in 1..Len(Out.tried) :
              LET i == Out.tried[k] IN
              CoercionFails(routes[i], Req, served.intSize) =>
                 /\ \A c \in 1..Len(Out.calls) : Out.calls[c].route # i
                 /\ \A j \in (i + 1)..Len(routes) :
                       Candidate(routes[j], Req) => k < Len(Out.tried)
                 /\ IF k < Len(Out.tried)
                    THEN Out.tried[k + 1] > i
                    ELSE /\ ~Out.handled
                         /\ Out.fallback = 1
                         /\ Out.w = NotFound(NewWriter)
                         /\ Code(Out.w) = 404
        /\ Out.handled =>
              /\ Out.fallback = 0
              /\ Out.w = Applied(routes[Out.tried[Len(Out.tried)]], Req, served.intSize).w

\* two routes match the path, the first one's parameter does not coerce, and
\* the second one's handler runs
C2_Witness ==
    /\ served.op = "Service"
    /\ Out.tried = <<1, 2>>
    /\ CoercionFails(routes[1], Req, served.intSize)
    /\ Len(Out.calls) = 1
    /\ Out.calls[1].route = 2
    /\ Out.fallback = 0

\* the same of the HttpService
HttpCaptures(r, uri) ==
    IF r.pattern = NilPattern THEN <<>> ELSE FindStringSubmatch(r.pattern, uri)

HttpCandidate(r, req) == r.method = req.method /\ HttpCaptures(r, req.uri) # <<>>

HttpArityMismatch(r, req) ==
    NumIn(r.function) # 1 + Len(Tail(HttpCaptures(r, req.uri)))

\* C3 (as claimed): when the handler of the first matching route has the
\* wrong number of parameters, the request ends with status 500 and nothing
\* else happens: no handler is invoked, no later route is tried and the
\* fallback is not invoked.  Stated for the requests that end without a
\* panic.
C3_ArityMismatchStops ==
    /\ (served.op = "Service" /\ ~Out.panicked) =>
          \A i \in 1..Len(routes) :
             (/\ Candidate(routes[i], Req)
              /\ \A j \in 1..(i - 1) : ~Candidate(routes[j], Req)
              /\ ArityMismatch(routes[i], Req))
             => /\ Code(Out.w) = 500
                /\ Out.calls = <<>>
                /\ Out.tried = <<i>>
                /\ Out.fallback = 0
    /\ (served.op = "HttpService" /\ ~Out.panicked) =>
          \A i \in 1..Len(hroutes) :
             (/\ HttpCandidate(hroutes[i], Req)
              /\ \A j \in 1..(i - 1) : ~HttpCandidate(hroutes[j], Req)
              /\ HttpArityMismatch(hroutes[i], Req))
             => /\ Code(Out.w) = 500
                /\ Out.calls = <<>>
                /\ Out.tried = <<i>>
                /\ Out.fallback = 0

\* C4 (as claimed): the fallback handler is invoked exactly once when no
\* route reported the request as handled, and never once a route's
\* dispatcher has reported it as handled.  Stated for the requests that end
\* without a panic.
C4_FallbackOnlyWhenUnhandled ==
    (served.op \in {"Service", "HttpService"} /\ ~Out.panicked) =>
        Out.fallback = (IF Out.handled THEN 0 ELSE 1)

\* ------------------------------------------------------------------------
\* Properties of the path matcher
\* ------------------------------------------------------------------------

\* every placeholder of the template t is a whole '/'-delimited segment
WholeSegments(t) ==
    \A i \in 1..Len(t) :
        LET j == PlaceholderEnd(t, i, "{", "}") IN
        j # 0 => /\ (i = 1 \/ t[i - 1] = "/")
                 /\ (j = Len(t) \/ t[j + 1] = "/")

\* a value that may stand in a non-greedy position: not empty, no '/'
SegmentValue(v) == v # <<>> /\ \A k \in 1..Len(v) : v[k] # "/"

\* the handler of rt takes the context and n strings
TakesStrings(n) == rt.handler.kind = "func" /\ Len(rt.handler.in) = n

\* C5: for a route whose pattern is anchored at both ends (Route.Path,
\* Route.Prefix) and whose template (prefix and own path) has N placeholders,
\* each a whole segment, a request path built by putting a value in the place
\* of each placeholder is matched exactly when every value is non-empty and
\* has no '/', and then the N values, in template order, are the Context.Args
\* that the handler is called with.  (The code has no greedy placeholder.)
C5_SubstitutedValuesCaptured ==
    (mt # None /\ ~rtPath.prefix /\ WholeSegments(Template)) =>
        \A vals \in ValSeqs(NumPlaceholders(Template)) :
            mt.req.uri = Substitute(Template, 1, vals, 1) =>
                IF \A k \in DOMAIN vals : SegmentValue(vals[k])
                THEN /\ mt.args # <<>>
                     /\ ApplyArgs(mt.args) = vals
                     /\ TakesStrings(Len(vals)) =>
                            /\ Len(mt.out.calls) = 1
                            /\ mt.out.calls[1].in = vals
                ELSE mt.args = <<>>

\* C6: a route built with Route.Path from a template without placeholders
\* matches a request path if and only if the path equals the prefix followed
\* by the template, character for character.
C6_LiteralTemplateMatchesOnlyItself ==
    (mt # None /\ rtPath.op = "Path" /\ NumPlaceholders(Template) = 0) =>
        (mt.args # <<>> <=> mt.req.uri = Template)

\* C7: once Route.Path, Route.PathPrefix or Route.Prefix was given a template
\* that did not compile, the route reports no request as a match.
C7_FailedCompilationNeverMatches ==
    (mt # None /\ rt.pattern = NilPattern) => mt.args = <<>>

\* ------------------------------------------------------------------------
\* Properties of coerce
\* ------------------------------------------------------------------------

\* the greatest value of the signed type of width w, the magnitude of its
\* least value, and the greatest value of the unsigned type of width w
MaxSigned(w) ==
    CASE w = 8 -> <<"1", "2", "7">>
      [] w = 16 -> <<"3", "2", "7", "6", "7">>
      [] w = 32 -> <<"2", "1", "4", "7", "4", "8", "3", "6", "4", "7">>
      [] w = 64 -> <<"9", "2", "2", "3", "3", "7", "2", "0", "3", "6", "8", "5", "4", "7", "7", "5", "8", "0", "7">>

MinSignedMagnitude(w) ==
    CASE w = 8 -> <<"1", "2", "8">>
      [] w = 16 -> <<"3", "2", "7", "6", "8">>
      [] w = 32 -> <<"2", "1", "4", "7", "4", "8", "3", "6", "4", "8">>
      [] w = 64 -> <<"9", "2", "2", "3", "3", "7", "2", "0", "3", "6", "8", "5", "4", "7", "7", "5", "8", "0", "8">>

MaxUnsigned(w) ==
    CASE w = 8 -> <<"2", "5", "5">>
      [] w = 16 -> <<"6", "5", "5", "3", "5">>
      [] w = 32 -> <<"4", "2", "9", "4", "9", "6", "7", "2", "9", "5">>
      [] w = 64 -> <<"1", "8", "4", "4", "6", "7", "4", "4", "0", "7", "3", "7", "0", "9", "5", "5", "1", "6", "1", "5">>

\* a \leq b for magnitudes
MagLeq(a, b) == a = b \/ MagLess(a, b)

\* s is an optional sign followed by decimal digits; its digits
HasSign(s) == Len(s) > 0 /\ s[1] \in {"+", "-"}
DigitsOf(s) == IF HasSign(s) THEN Tail(s) ELSE s
SignedText(s) == IsDigits(DigitsOf(s))

\* the integer that the text s denotes
IntegerOf(s) ==
    LET m == StripZeros(DigitsOf(s)) IN
    [neg |-> (s[1] = "-" /\ m # <<"0">>), mag |-> m]

\* the integer v is a value of the signed / unsigned type of width w
InSigned(v, w) ==
    IF v.neg THEN MagLeq(v.mag, MinSignedMagnitude(w)) ELSE MagLeq(v.mag, MaxSigned(w))

InUnsigned(v, w) == ~v.neg /\ MagLeq(v.mag, MaxUnsigned(w))

\* s has a fractional part
Fractional(s) == \E k \in 1..Len(s) : s[k] = "."

\* the handler was called once, with the coerced value
CalledWithValue ==
    /\ co.d.handled
    /\ co.d.calls = <<[id |-> "fOne", in |-> <<co.r.v>>]>>

\* the handler was not called and nothing was written
NotCalled ==
    /\ ~co.d.handled
    /\ co.d.calls = <<>>
    /\ co.d.w = NewWriter

\* what holds of coerce for the fixed-width integer targets and for string
FixedWidthFaithful ==
    /\ co.t \in IntKinds =>
          /\ ~co.r.err <=> (SignedText(co.s) /\ InSigned(IntegerOf(co.s), KindBits(co.t)))
          /\ ~co.r.err => co.r.v = IntegerOf(co.s)
    /\ co.t \in UintKinds =>
          /\ ~co.r.err <=> (IsDigits(co.s) /\ InUnsigned(IntegerOf(co.s), KindBits(co.t)))
          /\ ~co.r.err => co.r.v = IntegerOf(co.s)
    /\ (co.t \in IntKinds \cup UintKinds /\ Fractional(co.s)) => co.r.err
    /\ co.t = "String" => (~co.r.err /\ co.r.v = co.s)
    /\ IF co.r.err THEN NotCalled ELSE CalledWithValue

EncodedWith(ct) ==
    /\ Len(enc.out.w.body) = 1
    /\ enc.out.w.body[1].fmt = (IF ct = "application/json" THEN "json" ELSE "base64")
    /\ ct = "application/json" => enc.out.w.body[1].of = enc.response
    /\ ct = "application/x-msgpack" =>
          enc.out.w.body[1].of = [fmt |-> "msgpack", of |-> enc.response]
    /\ ct = "application/bson" =>
          enc.out.w.body[1].of = [fmt |-> "bson", of |-> enc.response]

\* C9: EncodeResponse selects the Accept header when it is not empty and the
\* Content-Type header otherwise; with a codec registered for the selected
\* type the envelope is encoded with that codec; with none it returns
\* UnsupportedContentType, the status is 400 and no body is written; and it
\* returns UnsupportedContentType in no other case.
C9_UnsupportedOnlyWithoutCodec ==
    enc.op = "EncodeResponse" =>
        LET ct == IF enc.accept # "" THEN enc.accept ELSE enc.ctype IN
        /\ enc.out.w.ctype = ct
        /\ (ct \in Registered /\ Marshalable(enc.response)) =>
              (enc.out.err = "nil" /\ EncodedWith(ct))
        /\ ct \notin Registered =>
              /\ enc.out.err = "UnsupportedContentType"
              /\ Code(enc.out.w) = 400
              /\ enc.out.w.body = <<>>
        /\ enc.out.err = "UnsupportedContentType" => ct \notin Registered

\* C10: when the body of a request is Serializers.Encode(ct, v) for a
\* registered content type ct, and the request carries Content-Type = Accept
\* = ct, the route with the declared body type and a handler (context, body)
\* matches with exactly one capture, apply returns true, the handler is
\* called exactly once with a body equal to v, and the status is 200.
C10_BodyRoundTrip ==
    (enc.op = "ServeBody" /\ enc.ct \in Registered /\ enc.bodyCt = enc.ct) =>
        /\ Len(enc.args) = 1
        /\ enc.out.handled
        /\ ~enc.out.panicked
        /\ enc.out.calls = <<[id |-> "fBody", in |-> <<enc.v>>]>>
        /\ Code(enc.out.w) = 200

\* ------------------------------------------------------------------------
\* Properties of the responses
\* ------------------------------------------------------------------------

\* the envelopes written to the response so far
Envelopes == {enc.out.w.body[k].of : k \in 1..Len(enc.out.w.body)}

\* the last call wrote an envelope, which is the last one of the body
WroteEnvelope == enc.op \in RespondOps /\ ~enc.out.err

LastEnvelope == enc.out.w.body[Len(enc.out.w.body)].of

\* C11 as stated: no envelope written through the Context has both an error
\* and data, an envelope with status 200 has no error, and an envelope with
\* an error has no data.
C11_ErrorAndDataExclusive ==
    enc.op \in RespondOps =>
        \A e \in Envelopes :
            /\ ~(e.E # <<>> /\ e.D # <<>>)
            /\ e.S = 200 => e.E = <<>>
            /\ e.E # <<>> => e.D = <<>>

\* C11 as the code has it: every envelope has the shape {S, E, D} with the
\* status, the error (null exactly when the error string is empty) and the
\* data of the call that wrote it.  So an envelope of RespondWithData has
\* status 200 and no error, one of RespondWithStatus has neither error nor
\* data, one of RespondWithErrorMessage has no data; Respond itself puts no
\* condition on its arguments.
C11_EnvelopeOfCall ==
    WroteEnvelope =>
        /\ Len(enc.out.w.body) = Len(enc.before.body) + 1
        /\ DOMAIN LastEnvelope = {"S", "E", "D"}
        /\ LastEnvelope.S = enc.status
        /\ LastEnvelope.E = (IF enc.error = "" THEN <<>> ELSE <<enc.error>>)
        /\ LastEnvelope.D = enc.data
        /\ enc.op = "RespondWithData" => (LastEnvelope.S = 200 /\ LastEnvelope.E = <<>>)
        /\ enc.op = "RespondWithStatus" => (LastEnvelope.E = <<>> /\ LastEnvelope.D = <<>>)
        /\ enc.op = "RespondWithErrorMessage" => LastEnvelope.D = <<>>

\* RespondWithErrorMessage wrote an envelope with an error and no data
C11_Witness ==
    /\ WroteEnvelope
    /\ enc.op = "RespondWithErrorMessage"
    /\ LastEnvelope.E = <<"oops">>
    /\ LastEnvelope.D = <<>>
    /\ LastEnvelope.S = 404

\* C12: on every response path the status is committed before the body is
\* written, so the status the client receives is the status of the envelope
\* when the response was encoded, and 400 when the selected content type has
\* no codec.  (For Context.Respond: of the first response of a request.)
C12_StatusBeforeBody ==
    /\ enc.op \in {"EncodeResponse", "Encode"} =>
          /\ enc.out.err = "nil" => Code(enc.out.w) = enc.response.S
          /\ Selected(enc.accept, enc.ctype) \notin Registered => Code(enc.out.w) = 400
    /\ (enc.op \in RespondOps /\ enc.before = NewWriter /\ ~enc.out.err) =>
          Code(enc.out.w) = enc.status

\* C13: a no-match of Route.match never reaches Route.apply: serving a
\* request that the route does not match does not fault on args[1:], through
\* Route.ServeHTTP as through Service.ServeHTTP, where every route applied
\* is one that matched.
C13_NoMatchNeverApplied ==
    /\ (mt # None /\ mt.args = <<>>) => ~mt.out.panicked
    /\ served.op = "Service" =>
          /\ \A k \in 1..Len(Out.tried) : RouteMatch(routes[Out.tried[k]], Req) # <<>>
          /\ (\A k \in 1..Len(routes) : RouteMatch(routes[k], Req) = <<>>) => ~Out.panicked


=============================================================================
